---- MODULE Spec2Model ----
(***************************************************************************)
(* A model of streamlit_app.py, the investment-memo generator: one         *)
(* Streamlit session.  Every widget interaction re-executes the script     *)
(* from its first line; st.button returns True only in the run its click   *)
(* triggered.  The run triggered by "Generate Memo" is followed through    *)
(* its section loop one iteration at a time.                               *)
(*                                                                         *)
(* Text.  A Python str is modelled as a sequence of runs.  A run           *)
(* [src |-> s, len |-> n] is the first n characters of the string s:       *)
(* s is the literal itself when the source spells it out (then a whole     *)
(* run has len = Len(s)), and a tag in angle brackets for text the program *)
(* only receives (document text, web text, an exception message, an LLM    *)
(* reply, what the user typed).  Concatenation is \o, len() is TLen,       *)
(* s[:n] is Take, and str.strip() is Strip.                                *)
(***************************************************************************)
EXTENDS Naturals, Sequences, FiniteSets, TLC

VARIABLES
    google_api_key,          \* st.secrets["gemini_api_key"], or None
    uploaded_pitch_deck,     \* the st.file_uploader value, or None
    website_url,             \* the st.text_input value
    pressed,                 \* what st.button("Generate Memo") returned
    scrape,                  \* how the scrape of the current run went
    all_document_text,       \* the text extracted by the current run
    pc,                      \* where the current script run stands
    generated_memo_content,  \* ordered dict: section name -> text area value
    final_memo_text,         \* the assembled memo
    download,                \* whether st.download_button is on the page
    notifications,           \* st.warning / st.error of the current run
    calls,                   \* generate_memo_section_llm invocations of the run
    last_edit                \* what the user last typed into a section field

vars == <<google_api_key, uploaded_pitch_deck, website_url, pressed, scrape,
          all_document_text,
          pc, generated_memo_content, final_memo_text, download,
          notifications, calls, last_edit>>

---------------------------------------------------------------------------
(* Bounds of the model: the lengths of the texts the program receives.     *)

\* characters of text in a short pitch deck
ShortLen == 40
\* a deck that makes the shortest instruction's prompt exactly 28000 long
MidLen == 27884
\* a deck longer than the ceiling on its own
LongLen == 30000
\* characters of text scraped from a web page
WebLen == 60
\* characters of an exception's message
ExcLen == 12
\* characters of an LLM reply, between its surrounding whitespace
ReplyLen == 25

---------------------------------------------------------------------------
(* Text                                                                    *)

None == "<None>"

Run(s, n) == [src |-> s, len |-> n]

Lit(s) == Run(s, Len(s))

\* the sources that consist of whitespace only
WsSrc == {" ", "\n", "\n\n"}

RECURSIVE TLen(_)
TLen(t) == IF t = <<>> THEN 0 ELSE t[1].len + TLen(Tail(t))

RECURSIVE Take(_, _)
Take(t, n) ==
    IF t = <<>> \/ n = 0 THEN <<>>
    ELSE IF t[1].len <= n THEN <<t[1]>> \o Take(Tail(t), n - t[1].len)
    ELSE <<Run(t[1].src, n)>>

\* not t.strip()
IsBlank(t) == \A k \in 1..Len(t) : t[k].src \in WsSrc

RECURSIVE LStrip(_)
LStrip(t) == IF t # <<>> /\ t[1].src \in WsSrc THEN LStrip(Tail(t)) ELSE t

RECURSIVE RStrip(_)
RStrip(t) ==
    IF t # <<>> /\ t[Len(t)].src \in WsSrc
    THEN RStrip(SubSeq(t, 1, Len(t) - 1))
    ELSE t

Strip(t) == RStrip(LStrip(t))

\* str.endswith, for the file names of the model
EndsWith(name, suffix) ==
    <<name, suffix>> \in {<<"deck.pdf", ".pdf">>, <<"deck.pptx", ".pptx">>}

---------------------------------------------------------------------------
(* The inputs of a run                                                     *)

\* What st.file_uploader can hold: no file (NoFile), or a file with a name and a
\* payload.  "text": a well-formed file with len characters of text;
\* "notext": a well-formed file with no text run (pdf: every page without
\* text; pptx: no shape with text); "blank": a pptx whose shapes hold empty
\* text; "corrupt": the parsing library raises on it.
NoFile == [name |-> None, payload |-> None, len |-> 0]

Decks ==
    {NoFile}
    \cup {[name |-> "deck.pdf", payload |-> "text", len |-> n] :
            n \in {ShortLen, MidLen, LongLen}}
    \cup {[name |-> "deck.pdf", payload |-> p, len |-> 0] :
            p \in {"notext", "corrupt"}}
    \cup {[name |-> "deck.pptx", payload |-> "text", len |-> ShortLen]}
    \cup {[name |-> "deck.pptx", payload |-> p, len |-> 0] :
            p \in {"blank", "corrupt"}}
    \cup {[name |-> "deck.PDF", payload |-> "text", len |-> ShortLen]}

Urls == {"", "https://www.example.com"}

\* What requests.get and BeautifulSoup can do with a URL; with no URL,
\* scrape_website_text is not called.
WebOutcomes(url) ==
    IF url = "" THEN {"not_called"}
    ELSE {"request_error", "parse_error", "text", "empty_page"}

ApiKeys == {None, "", "KEY"}

\* What the provider can do with one generate request.
LLMOutcomes == {"ok", "error"}

---------------------------------------------------------------------------
(* The functions of streamlit_app.py                                       *)

\* A variant of Absent that tests for None alone.
Absent_NoneOnly(api_key) == api_key = None

\* "not api_key", "not google_api_key"
Absent(api_key) == api_key \in {None, ""}

\* A variant of extract_text_from_pdf whose handler swallows the failure.
extract_text_from_pdf_Silent(uploaded_file) ==
    IF uploaded_file.payload = "text"
    THEN <<Run("<deck text>", uploaded_file.len)>>
    ELSE <<>>

extract_text_from_pdf(uploaded_file) ==
    CASE uploaded_file.payload = "corrupt" ->
            <<Lit("Error extracting PDF: "), Run("<exception>", ExcLen)>>
      [] uploaded_file.payload = "text" ->
            <<Run("<deck text>", uploaded_file.len)>>
      [] OTHER -> <<>>

extract_text_from_pptx(uploaded_file) ==
    CASE uploaded_file.payload = "corrupt" ->
            <<Lit("Error extracting PPTX: "), Run("<exception>", ExcLen)>>
      [] uploaded_file.payload = "text" ->
            <<Run("<deck text>", uploaded_file.len), Lit("\n")>>
      [] uploaded_file.payload = "blank" ->
            <<Lit("\n"), Lit("\n")>>
      [] OTHER -> <<>>

\* A variant of scrape_website_text that returns its error message, as the
\* document extractors do.
scrape_website_text_Inline(url, outcome) ==
    CASE outcome = "text" ->
            [text |-> <<Run("<web text>", WebLen)>>, notes |-> <<>>]
      [] outcome = "empty_page" ->
            [text |-> <<>>, notes |-> <<>>]
      [] OTHER ->
            [text |-> <<Lit("Error accessing website "), Run("<exception>", ExcLen)>>,
             notes |-> <<[by |-> "scrape_website_text", level |-> "error",
                          msg |-> "Error accessing website"]>>]

\* The text returned and the st.error calls made.
scrape_website_text(url, outcome) ==
    CASE outcome = "text" ->
            [text |-> <<Run("<web text>", WebLen)>>, notes |-> <<>>]
      [] outcome = "empty_page" ->
            [text |-> <<>>, notes |-> <<>>]
      [] outcome = "request_error" ->
            [text |-> <<>>,
             notes |-> <<[by |-> "scrape_website_text", level |-> "error",
                          msg |-> "Error accessing website"]>>]
      [] OTHER ->
            [text |-> <<>>,
             notes |-> <<[by |-> "scrape_website_text", level |-> "error",
                          msg |-> "Error parsing website"]>>]

\* the size above which the combined prompt is cut
Ceiling == 28000

Separator == "\n\nHere is the relevant document text to analyze:\n\n"

Marker == "...\n(Text truncated due to length)"

\* f"{prompt}\n\nHere is the relevant document text to analyze:\n\n{document_text}"
FullPrompt(prompt, document_text) ==
    prompt \o <<Lit(Separator)>> \o document_text

\* A variant of Truncate that marks the prompt without cutting it.
Truncate_KeepAll(full_prompt) ==
    IF TLen(full_prompt) > Ceiling
    THEN full_prompt \o <<Lit(Marker)>>
    ELSE full_prompt

\* A variant of Truncate that cuts the prompt without marking it.
Truncate_NoMarker(full_prompt) ==
    IF TLen(full_prompt) > Ceiling
    THEN Take(full_prompt, Ceiling)
    ELSE full_prompt

Truncate(full_prompt) ==
    IF TLen(full_prompt) > Ceiling
    THEN Take(full_prompt, Ceiling) \o <<Lit(Marker)>>
    ELSE full_prompt

\* response.text of a successful generate_content call
Reply == <<Lit("\n"), Run("<llm reply>", ReplyLen), Lit("\n")>>

\* The value returned, the content handed to model.generate_content (<<>>
\* when it was not called), whether genai.configure and generate_content
\* were called, and the st.error calls made.
generate_memo_section_llm(section_name, prompt, document_text, api_key, outcome) ==
    IF Absent(api_key)
    THEN [result |-> <<Lit("Please provide a Gemini API key in Streamlit secrets to generate "),
                       Lit(section_name), Lit(".")>>,
          sent |-> <<>>, configured |-> FALSE, requests |-> 0, notes |-> <<>>]
    ELSE LET full_prompt == Truncate(FullPrompt(prompt, document_text))
         IN  IF outcome = "ok"
             THEN [result |-> Strip(Reply),
                   sent |-> full_prompt, configured |-> TRUE, requests |-> 1,
                   notes |-> <<>>]
             ELSE [result |-> <<Lit("Could not generate "), Lit(section_name),
                                Lit(". Error: "), Run("<exception>", ExcLen)>>,
                   sent |-> full_prompt, configured |-> TRUE, requests |-> 1,
                   notes |-> <<[by |-> "generate_memo_section_llm",
                                level |-> "error", msg |-> section_name]>>]

memo_sections == <<
    [section |-> "Executive Summary",
     prompt  |-> "Generate a concise, plain-language elevator pitch for the company."],
    [section |-> "Quick Facts",
     prompt  |-> "Extract the company's foundation date, details about any funding rounds (amount, type, investors), and any significant contracts or partnerships mentioned."],
    [section |-> "Customer Persona",
     prompt  |-> "Describe the ideal customer or target audience for the company's product/service. Who buys it and why?"],
    [section |-> "Problem",
     prompt  |-> "Identify the core problem or pain point that the company's product/service is designed to solve."],
    [section |-> "Solution",
     prompt  |-> "Describe the actual product, service, or approach the company uses to solve the identified problem. Explain its key features and how it works."],
    [section |-> "Customer Voice / Expert Opinion",
     prompt  |-> "Extract any customer testimonials, case studies, or expert opinions that validate the company's offering."],
    [section |-> "Founding Team",
     prompt  |-> "List the key founding team members and their roles, along with any notable relevant experience."],
    [section |-> "Fundraising and GTM",
     prompt  |-> "Detail the company's fundraising 'ask' (what they are seeking), their go-to-market strategy, and any current traction (e.g., users, revenue, growth metrics)."],
    [section |-> "Key Risk",
     prompt  |-> "Identify and describe the main risks or challenges the company might face (e.g., market competition, regulatory, execution)."],
    [section |-> "Media (Optional)",
     prompt  |-> "Extract any mentions of media coverage, awards, or significant public recognition."] >>

SectionNames == {memo_sections[k].section : k \in 1..Len(memo_sections)}

---------------------------------------------------------------------------
(* The script                                                              *)

\* "if uploaded_pitch_deck:"
HasFile(deck) == deck.name # None

\* The text extracted from the deck and the website, and the st.error
\* calls of the scrape.
Extraction(deck, url, web) ==
    LET deck_text ==
            IF ~HasFile(deck) THEN <<>>
            ELSE IF EndsWith(deck.name, ".pdf") THEN extract_text_from_pdf(deck)
            ELSE IF EndsWith(deck.name, ".pptx") THEN extract_text_from_pptx(deck)
            ELSE <<>>
        scraped == scrape_website_text(url, web)
    IN  IF url # ""
        THEN [text |-> deck_text \o <<Lit("\n\n")>> \o scraped.text,
              notes |-> scraped.notes]
        ELSE [text |-> deck_text, notes |-> <<>>]

\* A variant of Gate that looks for the credential before the text.
Gate_KeyFirst(deck, url, text, api_key) ==
    CASE ~HasFile(deck) /\ url = "" -> "input_missing"
      [] Absent(api_key)            -> "credential_missing"
      [] IsBlank(text)              -> "extraction_empty"
      [] OTHER                      -> "generate"

\* The branch the "Generate Memo" handler takes.
Gate(deck, url, text, api_key) ==
    CASE ~HasFile(deck) /\ url = "" -> "input_missing"
      [] IsBlank(text)              -> "extraction_empty"
      [] Absent(api_key)            -> "credential_missing"
      [] OTHER                      -> "generate"

\* The st.warning / st.error call of the branch taken.
GateNotes(branch) ==
    CASE branch = "input_missing" ->
            <<[by |-> "handler", level |-> "warning", msg |-> branch]>>
      [] branch \in {"extraction_empty", "credential_missing"} ->
            <<[by |-> "handler", level |-> "error", msg |-> branch]>>
      [] OTHER -> <<>>

\* One execution of the script up to the section loop, with the widgets
\* holding deck and url; button is what st.button("Generate Memo") returns.
\* Nothing of the previous run's page is kept.
ScriptRun(deck, url, button, web) ==
    LET ex     == Extraction(deck, url, web)
        branch == IF button
                  THEN Gate(deck, url, ex.text, google_api_key)
                  ELSE "not_pressed"
    IN  /\ uploaded_pitch_deck' = deck
        /\ website_url' = url
        /\ pressed' = button
        /\ scrape' = web
        /\ all_document_text' = ex.text
        /\ notifications' = ex.notes \o GateNotes(branch)
        /\ pc' = IF branch = "generate" THEN "loop" ELSE "idle"
        /\ generated_memo_content' = <<>>
        /\ final_memo_text' = <<>>
        /\ download' = FALSE
        /\ calls' = <<>>
        /\ UNCHANGED google_api_key

\* d[key] = value on an insertion-ordered dict
DictSet(d, key, value) ==
    IF \E k \in 1..Len(d) : d[k].section = key
    THEN [k \in 1..Len(d) |->
            IF d[k].section = key THEN [section |-> key, content |-> value]
            ELSE d[k]]
    ELSE Append(d, [section |-> key, content |-> value])

\* st.text_area(label, value=..., key=...) in the run that creates the
\* widget: it returns the value it is pre-filled with.
text_area(value, key) == value

\* A variant of AssembleMemo that ends a section with one line break.
RECURSIVE AssembleMemo_NoBlankLine(_)
AssembleMemo_NoBlankLine(d) ==
    IF d = <<>> THEN <<>>
    ELSE <<Lit("## "), Lit(d[1].section), Lit("\n")>>
         \o d[1].content \o <<Lit("\n")>>
         \o AssembleMemo_NoBlankLine(Tail(d))

RECURSIVE AssembleMemo(_)
AssembleMemo(d) ==
    IF d = <<>> THEN <<>>
    ELSE <<Lit("## "), Lit(d[1].section), Lit("\n")>>
         \o d[1].content \o <<Lit("\n\n")>>
         \o AssembleMemo(Tail(d))

NoEdit == [section |-> None, text |-> <<>>]

\* what the user may type into a section's field
UserTexts == {<<Run("<user text>", ShortLen)>>}

---------------------------------------------------------------------------
(* The session                                                             *)

Init ==
    /\ google_api_key \in ApiKeys
    /\ uploaded_pitch_deck = NoFile
    /\ website_url = ""
    /\ pressed = FALSE
    /\ scrape = "not_called"
    /\ all_document_text = <<>>
    /\ pc = "idle"
    /\ generated_memo_content = <<>>
    /\ final_memo_text = <<>>
    /\ download = FALSE
    /\ notifications = <<>>
    /\ calls = <<>>
    /\ last_edit = NoEdit

\* The user uploads, replaces or removes the pitch deck: a rerun.
UploadDeck ==
    /\ pc = "idle"
    /\ \E deck \in Decks \ {uploaded_pitch_deck},
          web \in WebOutcomes(website_url) :
            ScriptRun(deck, website_url, FALSE, web)
    /\ last_edit' = NoEdit

\* The user changes the URL field: a rerun.
EnterUrl ==
    /\ pc = "idle"
    /\ \E url \in Urls \ {website_url} : \E web \in WebOutcomes(url) :
            ScriptRun(uploaded_pitch_deck, url, FALSE, web)
    /\ last_edit' = NoEdit

\* The user presses "Generate Memo": a rerun in which st.button is True.
ClickGenerate ==
    /\ pc = "idle"
    /\ \E web \in WebOutcomes(website_url) :
            ScriptRun(uploaded_pitch_deck, website_url, TRUE, web)
    /\ last_edit' = NoEdit

\* The record of one call of generate_memo_section_llm.
CallRecord(section_name, prompt, document_text, api_key, outcome, r) ==
    [section_name |-> section_name, prompt |-> prompt,
     document_text |-> document_text, api_key |-> api_key,
     outcome |-> outcome, result |-> r.result, sent |-> r.sent,
     configured |-> r.configured, requests |-> r.requests, notes |-> r.notes]

\* A variant of GenerateSection in which a failed call ends the run.
GenerateSection_Abort ==
    /\ pc = "loop"
    /\ \E outcome \in LLMOutcomes :
        LET entry == memo_sections[Len(generated_memo_content) + 1]
            r == generate_memo_section_llm(entry.section, <<Lit(entry.prompt)>>,
                    all_document_text, google_api_key, outcome)
        IN  /\ calls' = Append(calls,
                    CallRecord(entry.section, <<Lit(entry.prompt)>>,
                               all_document_text, google_api_key, outcome, r))
            /\ notifications' = notifications \o r.notes
            /\ generated_memo_content' =
                    IF outcome = "ok"
                    THEN DictSet(generated_memo_content, entry.section,
                                 text_area(r.result, entry.section))
                    ELSE generated_memo_content
            /\ pc' = IF outcome # "ok" THEN "idle"
                     ELSE IF Len(generated_memo_content) + 1 = Len(memo_sections)
                     THEN "assemble" ELSE "loop"
    /\ UNCHANGED <<google_api_key, uploaded_pitch_deck, website_url, pressed,
                   scrape, all_document_text, final_memo_text, download,
                   last_edit>>

\* A variant of GenerateSection in which a failed call is made again.
GenerateSection_Retry ==
    /\ pc = "loop"
    /\ \E outcome \in LLMOutcomes :
        LET entry == memo_sections[Len(generated_memo_content) + 1]
            r == generate_memo_section_llm(entry.section, <<Lit(entry.prompt)>>,
                    all_document_text, google_api_key, outcome)
            retry == outcome # "ok" /\ Len(calls) = Len(generated_memo_content)
        IN  /\ calls' = Append(calls,
                    CallRecord(entry.section, <<Lit(entry.prompt)>>,
                               all_document_text, google_api_key, outcome, r))
            /\ notifications' = notifications \o r.notes
            /\ generated_memo_content' =
                    IF retry THEN generated_memo_content
                    ELSE DictSet(generated_memo_content, entry.section,
                                 text_area(r.result, entry.section))
            /\ pc' = IF ~retry /\ Len(generated_memo_content) + 1 = Len(memo_sections)
                     THEN "assemble" ELSE "loop"
    /\ UNCHANGED <<google_api_key, uploaded_pitch_deck, website_url, pressed,
                   scrape, all_document_text, final_memo_text, download,
                   last_edit>>

\* One iteration of "for section, prompt in memo_sections.items()".
GenerateSection ==
    /\ pc = "loop"
    /\ \E outcome \in LLMOutcomes :
        LET entry == memo_sections[Len(generated_memo_content) + 1]
            r == generate_memo_section_llm(entry.section, <<Lit(entry.prompt)>>,
                    all_document_text, google_api_key, outcome)
        IN  /\ calls' = Append(calls,
                    CallRecord(entry.section, <<Lit(entry.prompt)>>,
                               all_document_text, google_api_key, outcome, r))
            /\ notifications' = notifications \o r.notes
            /\ generated_memo_content' =
                    DictSet(generated_memo_content, entry.section,
                            text_area(r.result, entry.section))
            /\ pc' = IF Len(generated_memo_content) + 1 = Len(memo_sections)
                     THEN "assemble" ELSE "loop"
    /\ UNCHANGED <<google_api_key, uploaded_pitch_deck, website_url, pressed,
                   scrape, all_document_text, final_memo_text, download,
                   last_edit>>

\* The code after the loop: the memo is assembled and offered.
Assemble ==
    /\ pc = "assemble"
    /\ final_memo_text' = AssembleMemo(generated_memo_content)
    /\ download' = TRUE
    /\ pc' = "idle"
    /\ UNCHANGED <<google_api_key, uploaded_pitch_deck, website_url, pressed,
                   scrape, all_document_text, generated_memo_content,
                   notifications, calls, last_edit>>

\* The user changes the text of a section's field: a rerun, in which
\* st.button("Generate Memo") is False.
EditField ==
    /\ pc = "idle"
    /\ download
    /\ \E k \in 1..Len(generated_memo_content), text \in UserTexts,
          web \in WebOutcomes(website_url) :
        /\ text # generated_memo_content[k].content
        /\ last_edit' = [section |-> generated_memo_content[k].section,
                         text |-> text]
        /\ ScriptRun(uploaded_pitch_deck, website_url, FALSE, web)

Next ==
    \/ UploadDeck
    \/ EnterUrl
    \/ ClickGenerate
    \/ GenerateSection
    \/ Assemble
    \/ EditField

Spec == Init /\ [][Next]_vars

---------------------------------------------------------------------------
(* generate_memo_section_llm on its own: every call a caller can make,     *)
(* whatever the credential, the instruction and the document text.         *)

\* an instruction of n characters, a document of n characters
Text(tag, n) == IF n = 0 THEN <<>> ELSE <<Run(tag, n)>>

Instructions ==
    {<<Lit(memo_sections[k].prompt)>> : k \in 1..Len(memo_sections)}
    \cup {Text("<instruction>", n) :
            n \in {ShortLen, Ceiling - Len(Separator),
                   Ceiling - Len(Separator) + 1, LongLen}}

Documents ==
    {Text("<document>", n) : n \in {0, ShortLen, MidLen, LongLen}}

InitFn ==
    /\ google_api_key = None
    /\ uploaded_pitch_deck = NoFile
    /\ website_url = ""
    /\ pressed = FALSE
    /\ scrape = "not_called"
    /\ all_document_text = <<>>
    /\ pc = "idle"
    /\ generated_memo_content = <<>>
    /\ final_memo_text = <<>>
    /\ download = FALSE
    /\ notifications = <<>>
    /\ calls = <<>>
    /\ last_edit = NoEdit

\* The call of a behaviour; calls holds it and notifications what it reported.
CallGenerator ==
    /\ calls = <<>>
    /\ \E section_name \in SectionNames, prompt \in Instructions,
          document_text \in Documents, api_key \in ApiKeys,
          outcome \in LLMOutcomes :
        LET r == generate_memo_section_llm(section_name, prompt,
                    document_text, api_key, outcome)
        IN  /\ calls' = <<CallRecord(section_name, prompt, document_text,
                                     api_key, outcome, r)>>
            /\ notifications' = r.notes
    /\ UNCHANGED <<google_api_key, uploaded_pitch_deck, website_url, pressed,
                   scrape, all_document_text, pc, generated_memo_content,
                   final_memo_text, download, last_edit>>

NextFn == CallGenerator

SpecFn == InitFn /\ [][NextFn]_vars

---------------------------------------------------------------------------
(* Properties                                                              *)

HandlerNotes == SelectSeq(notifications, LAMBDA n : n.by = "handler")

ScrapeNotes == SelectSeq(notifications, LAMBDA n : n.by = "scrape_website_text")

\* the three preconditions of the section loop
InputSupplied == HasFile(uploaded_pitch_deck) \/ website_url # ""

TextExtracted == \E k \in 1..Len(all_document_text) :
                    all_document_text[k].src \notin WsSrc

KeyConfigured == google_api_key \notin {None, ""}

\* the run is in, or has completed, the section loop
Generating == pc \in {"loop", "assemble"} \/ download

NoGeneration == pc = "idle" /\ calls = <<>> /\ ~download /\ final_memo_text = <<>>

NumSections == Len(memo_sections)

\* Reading a memo back: where its headings start, and the name and the
\* body of its j-th entry.
RECURSIVE HeadingsFrom(_, _)
HeadingsFrom(memo, p) ==
    IF p > Len(memo) THEN <<>>
    ELSE (IF memo[p] = Lit("## ") THEN <<p>> ELSE <<>>)
         \o HeadingsFrom(memo, p + 1)

\* the positions of the memo's headings, in order
Headings(memo) == HeadingsFrom(memo, 1)

\* with hs = Headings(memo): the last position of the j-th entry
EntryEnd(memo, hs, j) == IF j = Len(hs) THEN Len(memo) ELSE hs[j + 1] - 1

MemoName(memo, hs, j) == memo[hs[j] + 1]

MemoBody(memo, hs, j) == SubSeq(memo, hs[j] + 3, EntryEnd(memo, hs, j) - 1)

\* the section names a text mentions
NamesIn(text) == {n \in SectionNames : \E k \in 1..Len(text) : text[k].src = n}

\* a is the first characters of b
IsPrefixOf(a, b) ==
    \/ a = <<>>
    \/ /\ Len(a) <= Len(b)
       /\ \A k \in 1..(Len(a) - 1) : a[k] = b[k]
       /\ a[Len(a)].src = b[Len(a)].src
       /\ a[Len(a)].len <= b[Len(a)].len

\* C1: when "Generate Memo" is pressed and a precondition fails, the handler
\* reports exactly one diagnostic, that of the first failed precondition in
\* the order input missing, extraction empty, credential missing, and the
\* section generator is not called; the section loop runs only when all
\* three preconditions hold.
C1_GateDiagnostics ==
    /\ (pressed /\ ~InputSupplied) =>
            /\ HandlerNotes = <<[by |-> "handler", level |-> "warning",
                                 msg |-> "input_missing"]>>
            /\ NoGeneration
    /\ (pressed /\ InputSupplied /\ ~TextExtracted) =>
            /\ HandlerNotes = <<[by |-> "handler", level |-> "error",
                                 msg |-> "extraction_empty"]>>
            /\ NoGeneration
    /\ (pressed /\ InputSupplied /\ TextExtracted /\ ~KeyConfigured) =>
            /\ HandlerNotes = <<[by |-> "handler", level |-> "error",
                                 msg |-> "credential_missing"]>>
            /\ NoGeneration
    /\ (Generating \/ calls # <<>>) =>
            /\ pressed /\ InputSupplied /\ TextExtracted /\ KeyConfigured
            /\ HandlerNotes = <<>>

\* a pressed run with a URL whose page is empty and no credential: two
\* preconditions fail at once
C1_Witness ==
    /\ pressed /\ InputSupplied /\ ~TextExtracted /\ ~KeyConfigured
    /\ Len(HandlerNotes) = 1

\* C2: whichever sections' calls fail, the loop calls the generator for
\* every section; a failed section's result is an error string that names
\* that section and no other, a section that did not fail holds its reply,
\* and the result mapping and the memo have all ten sections.
C2_FailureIsLocal ==
    /\ \A k \in 1..Len(calls) :
        /\ k <= Len(generated_memo_content) =>
                generated_memo_content[k] =
                    [section |-> calls[k].section_name, content |-> calls[k].result]
        /\ calls[k].outcome = "error" =>
                /\ calls[k].result[1] = Lit("Could not generate ")
                /\ NamesIn(calls[k].result) = {calls[k].section_name}
        /\ calls[k].outcome = "ok" =>
                calls[k].result = <<Run("<llm reply>", ReplyLen)>>
    /\ (pc # "loop" /\ calls # <<>>) =>
            /\ {calls[k].section_name : k \in 1..Len(calls)} = SectionNames
            /\ Len(generated_memo_content) = NumSections
    /\ download => Len(Headings(final_memo_text)) = NumSections

\* a memo assembled from a run in which some calls failed and some did not
C2_Witness ==
    /\ download
    /\ \E j, k \in 1..Len(calls) :
            calls[j].outcome = "error" /\ calls[k].outcome = "ok"

\* C3: once the user has edited a section's field, the memo offered for
\* download carries, for that section, the text the user typed.
C3_EditsReachFinalMemo ==
    last_edit.section # None =>
        /\ download
        /\ LET hs == Headings(final_memo_text)
           IN  \E j \in 1..Len(hs) :
                /\ MemoName(final_memo_text, hs, j) = Lit(last_edit.section)
                /\ MemoBody(final_memo_text, hs, j) = last_edit.text

\* C4: an assembled memo consists of exactly ten entries, in the order of
\* memo_sections, each the line "## <section name>", then that section's
\* text, then a blank line; every section name heads exactly one entry.
C4_MemoLayout ==
    download =>
        LET memo == final_memo_text
            hs   == Headings(memo)
        IN  /\ Len(hs) = NumSections
            /\ Len(generated_memo_content) = NumSections
            /\ hs[1] = 1
            /\ \A j \in 1..NumSections :
                /\ hs[j] + 3 <= EntryEnd(memo, hs, j)
                /\ MemoName(memo, hs, j) = Lit(memo_sections[j].section)
                /\ memo[hs[j] + 2] = Lit("\n")
                /\ MemoBody(memo, hs, j) = generated_memo_content[j].content
                /\ memo[EntryEnd(memo, hs, j)] = Lit("\n\n")

\* a memo assembled from a run in which the first call failed and the last
\* did not
C4_Witness ==
    /\ download
    /\ Len(calls) = NumSections
    /\ calls[1].outcome = "error"
    /\ calls[NumSections].outcome = "ok"
    /\ final_memo_text # <<>>

\* what a call would send untruncated
Combined(c) == c.prompt \o <<Lit(Separator)>> \o c.document_text

\* the content sent is the whole instruction, the separator, the first
\* characters of the document and the marker
CutInDocument(c) ==
    LET np == Len(c.prompt)
    IN  /\ Len(c.sent) >= np + 2
        /\ SubSeq(c.sent, 1, np) = c.prompt
        /\ c.sent[np + 1] = Lit(Separator)
        /\ IsPrefixOf(SubSeq(c.sent, np + 2, Len(c.sent) - 1), c.document_text)
        /\ c.sent[Len(c.sent)] = Lit(Marker)

SentUnchanged(c) ==
    /\ c.sent = Combined(c)
    /\ \A k \in 1..Len(c.sent) : c.sent[k].src # Marker

\* C5, as claimed: whenever the combined prompt exceeds the ceiling, the
\* whole instruction and the separator open the content sent, only the
\* document text is shortened and the marker ends it; otherwise the
\* combined prompt is sent unchanged, without a marker.
C5_OnlyDocumentCut ==
    \A k \in 1..Len(calls) :
        calls[k].requests > 0 =>
            IF TLen(Combined(calls[k])) > Ceiling
            THEN CutInDocument(calls[k])
            ELSE SentUnchanged(calls[k])

\* C5, amended: the same, for an instruction that fits under the ceiling
\* together with the separator; the marker ends the content sent for every
\* instruction.
C5_OnlyDocumentCutWhenInstructionFits ==
    \A k \in 1..Len(calls) :
        calls[k].requests > 0 =>
            IF TLen(Combined(calls[k])) > Ceiling
            THEN /\ calls[k].sent[Len(calls[k].sent)] = Lit(Marker)
                 /\ TLen(calls[k].prompt) + Len(Separator) <= Ceiling =>
                        CutInDocument(calls[k])
            ELSE SentUnchanged(calls[k])

\* a call whose instruction fits and whose document is cut short
C5_Witness ==
    \E k \in 1..Len(calls) :
        /\ calls[k].requests > 0
        /\ TLen(calls[k].prompt) + Len(Separator) <= Ceiling
        /\ TLen(Combined(calls[k])) > Ceiling
        /\ Len(calls[k].sent) = Len(calls[k].prompt) + 3
        /\ calls[k].sent[Len(calls[k].sent) - 1].len < TLen(calls[k].document_text)

\* C6: called with no credential (None or empty), the generator returns the
\* message asking for one, configures no provider, makes no request and
\* reports no error.
C6_NoCredentialShortCircuit ==
    \A k \in 1..Len(calls) :
        calls[k].api_key \in {None, ""} =>
            /\ calls[k].result =
                <<Lit("Please provide a Gemini API key in Streamlit secrets to generate "),
                  Lit(calls[k].section_name), Lit(".")>>
            /\ calls[k].requests = 0
            /\ ~calls[k].configured
            /\ calls[k].sent = <<>>
            /\ calls[k].notes = <<>>
            /\ notifications = <<>>

\* a call with an empty credential whose request would have failed
C6_Witness ==
    \E k \in 1..Len(calls) :
        /\ calls[k].api_key = ""
        /\ calls[k].outcome = "error"
        /\ calls[k].requests = 0

\* the deck in the uploader is one its parser fails on
ParseFailed ==
    /\ HasFile(uploaded_pitch_deck)
    /\ uploaded_pitch_deck.payload = "corrupt"

\* C7: a deck whose parser fails yields, in place of its text, a string
\* that starts with the word Error; the website, if a URL was given, is
\* still scraped and its text follows after a blank line; and a pressed run
\* is not stopped for want of input or of text: it generates, unless the
\* credential is missing.
C7_ParseFailureInline ==
    ParseFailed =>
        /\ Len(all_document_text) >= 2
        /\ all_document_text[1] \in {Lit("Error extracting PDF: "),
                                     Lit("Error extracting PPTX: ")}
        /\ all_document_text[2] = Run("<exception>", ExcLen)
        /\ website_url = "" => Len(all_document_text) = 2
        /\ website_url # "" =>
            /\ scrape # "not_called"
            /\ SubSeq(all_document_text, 3, Len(all_document_text)) =
                <<Lit("\n\n")>> \o
                (IF scrape = "text" THEN <<Run("<web text>", WebLen)>> ELSE <<>>)
        /\ pressed =>
            /\ \A k \in 1..Len(HandlerNotes) :
                    HandlerNotes[k].msg = "credential_missing"
            /\ KeyConfigured => Generating /\ HandlerNotes = <<>>

\* a run that generates from a corrupt PDF and a scraped page
C7_Witness ==
    /\ ParseFailed
    /\ uploaded_pitch_deck.name = "deck.pdf"
    /\ scrape = "text"
    /\ pressed
    /\ download

ScrapeFailed == scrape \in {"request_error", "parse_error"}

\* the extracted text without the blank line the scrape step put after it
DocumentPart == SubSeq(all_document_text, 1, Len(all_document_text) - 1)

\* a failed scrape returned the empty string and reported one error
ScrapeFailureIsEmpty ==
    /\ Len(all_document_text) >= 1
    /\ all_document_text[Len(all_document_text)] = Lit("\n\n")
    /\ \A k \in 1..Len(all_document_text) :
            all_document_text[k].src # "<web text>"
    /\ Len(ScrapeNotes) = 1
    /\ ScrapeNotes[1].level = "error"

UrlOnlyEndsEmpty ==
    (pressed /\ ~HasFile(uploaded_pitch_deck)) =>
        /\ HandlerNotes = <<[by |-> "handler", level |-> "error",
                             msg |-> "extraction_empty"]>>
        /\ NoGeneration

\* C8, as claimed: a failed scrape contributes no text and reports an
\* error; a pressed run with only the URL ends in the extraction-empty
\* diagnostic, and one that also has non-empty document text generates.
C8_ScrapeFailure ==
    ScrapeFailed =>
        /\ ScrapeFailureIsEmpty
        /\ UrlOnlyEndsEmpty
        /\ (pressed /\ DocumentPart # <<>>) => Generating

\* C8, amended: the same, where the run that generates is one whose
\* document text is not blank and whose credential is configured.
C8_ScrapeFailureWithCredential ==
    ScrapeFailed =>
        /\ ScrapeFailureIsEmpty
        /\ UrlOnlyEndsEmpty
        /\ (pressed /\ ~IsBlank(DocumentPart) /\ KeyConfigured) => Generating

\* a run that generates from a deck although the scrape failed
C8_Witness ==
    /\ ScrapeFailed
    /\ pressed
    /\ HasFile(uploaded_pitch_deck)
    /\ pc = "loop"
    /\ Len(calls) = 1

\* C9: in a run the generator is called once per entry of memo_sections,
\* in their order, one request each and no call repeated; each result is
\* stored under its section name in the same order; the memo is assembled
\* only after all ten calls.
C9_OnceEachInOrder ==
    /\ Len(calls) <= NumSections
    /\ Len(generated_memo_content) = Len(calls)
    /\ \A k \in 1..Len(calls) :
        /\ calls[k].section_name = memo_sections[k].section
        /\ calls[k].prompt = <<Lit(memo_sections[k].prompt)>>
        /\ calls[k].requests = 1
        /\ generated_memo_content[k].section = memo_sections[k].section
    /\ pc = "loop" => Len(calls) < NumSections
    /\ (pc = "assemble" \/ download \/ final_memo_text # <<>>) =>
            Len(calls) = NumSections
    /\ pc = "assemble" => ~download /\ final_memo_text = <<>>

\* a completed run in which a call in the middle failed
C9_Witness ==
    /\ download
    /\ Len(calls) = NumSections
    /\ calls[5].outcome = "error"
    /\ calls[6].outcome = "ok"

\* C10, as claimed: the content sent to the LLM, marker included, is never
\* longer than the ceiling.
C10_SentWithinCeiling ==
    \A k \in 1..Len(calls) :
        calls[k].requests > 0 => TLen(calls[k].sent) <= Ceiling

\* C10, amended: a combined prompt longer than the ceiling is sent as its
\* first Ceiling characters and the marker, Ceiling + Len(Marker)
\* characters in all; a shorter one is sent whole.
C10_SentWithinCeilingPlusMarker ==
    \A k \in 1..Len(calls) :
        calls[k].requests > 0 =>
            LET full == TLen(calls[k].prompt) + Len(Separator)
                        + TLen(calls[k].document_text)
            IN  IF full > Ceiling
                THEN /\ TLen(calls[k].sent) = Ceiling + Len(Marker)
                     /\ TLen(SubSeq(calls[k].sent, 1, Len(calls[k].sent) - 1)) = Ceiling
                ELSE TLen(calls[k].sent) = full

\* a run in which one prompt is exactly as long as the ceiling and the next
\* is longer
C10_Witness ==
    /\ Len(calls) >= 2
    /\ TLen(calls[1].sent) <= Ceiling
    /\ TLen(Combined(calls[1])) >= Ceiling - 1
    /\ TLen(Combined(calls[2])) > Ceiling

====
